---- MODULE Spec2Model ----
(***************************************************************************)
(* Model of main_script.py: the model-card pipeline                        *)
(*   process_models_directory -> generate_model_card ->                    *)
(*     generate_metadata_from_path, parse_readme,                          *)
(*     fetch_huggingface_metadata, resolve_metadata_conflicts, json.dump   *)
(*                                                                         *)
(* A Python str is a sequence of one-character strings; a dict is a        *)
(* function whose domain is its key set.                                   *)
(***************************************************************************)
EXTENDS Integers, Sequences, FiniteSets, TLC

VARIABLES
    pc,               \* position of the batch in the code
    walk,             \* what os.walk(model_dir) yields, flattened: (root, file) pairs
    idx,              \* position of the loop of lines 129-130 in walk
    model_path,       \* line 132
    author,           \* line 133
    modelname,        \* line 134
    local_metadata,   \* lines 101, 105
    readme,           \* the file system at readme_path: [exists, content]
    lookup_result,    \* what the registry did for this artifact
    hf_metadata,      \* line 108
    key_i,            \* position of the loop of line 81 in hf_metadata's keys
    result_metadata,  \* line 79
    prompts,          \* per field, how many Interfaces line 92 launched
    metadata,         \* lines 112, 114
    output_file,      \* line 117
    files,            \* the output directory: path -> dumped mapping
    output_info,      \* line 127
    result,           \* what process_models_directory returned
    error,            \* the exception that left process_models_directory
    steps             \* the pipeline steps completed for the current artifact

vars == <<pc, walk, idx, model_path, author, modelname, local_metadata, readme,
          lookup_result, hf_metadata, key_i, result_metadata, prompts, metadata,
          output_file, files, output_info, result, error, steps>>

----------------------------------------------------------------------------
(* Bounds *)

\* longest os.walk listing of a batch
MaxBatch == 2

\* most segments of a path string handed to generate_metadata_from_path alone
MaxSegs == 3

----------------------------------------------------------------------------
(* String literals of the source *)

Unknown == <<"U","n","k","n","o","w","n">>
GGUF == <<"G","G","U","F">>
DotGguf == <<".","g","g","u","f">>
DotMd == <<".","m","d">>
DotJson == <<".","j","s","o","n">>
ReadmeMd == <<"R","E","A","D","M","E",".","m","d">>
Ellipsis == <<".",".",".">>
AutoPrefix ==
    <<"A","u","t","o","-","g","e","n","e","r","a","t","e","d"," ",
      "m","o","d","e","l"," ","c","a","r","d"," ","f","o","r"," ">>
HfDefaultDescription ==
    <<"D","e","s","c","r","i","p","t","i","o","n"," ","f","r","o","m"," ",
      "H","u","g","g","i","n","g"," ","F","a","c","e",".">>
SavedPrefix == <<"M","o","d","e","l"," ","c","a","r","d"," ","f","o","r"," ">>
SavedInfix == <<" ","s","a","v","e","d"," ","t","o"," ">>

\* the slice bound of line 74
DescMax == 100

\* Python's None, and the dict {}
None == [k \in {"None"} |-> <<>>]
EmptyDict == [k \in {} |-> <<>>]

Fields ==
    {"author", "model_name", "description", "license", "format",
     "parameters", "architecture"}

----------------------------------------------------------------------------
(* Python's str and os.path operations *)

RECURSIVE LStrip(_, _)
LStrip(s, c) ==
    IF s # <<>> /\ Head(s) = c THEN LStrip(Tail(s), c) ELSE s

RECURSIVE RStrip(_, _)
RStrip(s, c) ==
    IF s # <<>> /\ s[Len(s)] = c THEN RStrip(SubSeq(s, 1, Len(s) - 1), c) ELSE s

\* s.strip(c)
Strip(s, c) == RStrip(LStrip(s, c), c)

\* s.find(c) + 1: the first position of c in s, 0 when there is none
Find(s, c) ==
    IF \E i \in 1..Len(s) : s[i] = c
    THEN CHOOSE i \in 1..Len(s) : s[i] = c /\ \A j \in 1..(i - 1) : s[j] # c
    ELSE 0

\* s.rfind(c) + 1
RFind(s, c) ==
    IF \E i \in 1..Len(s) : s[i] = c
    THEN CHOOSE i \in 1..Len(s) : s[i] = c /\ \A j \in (i + 1)..Len(s) : s[j] # c
    ELSE 0

\* s.split(c)
RECURSIVE Split(_, _)
Split(s, c) ==
    LET i == Find(s, c)
    IN  IF i = 0
        THEN <<s>>
        ELSE <<SubSeq(s, 1, i - 1)>> \o Split(SubSeq(s, i + 1, Len(s)), c)

\* s.endswith(suffix)
EndsWith(s, suffix) ==
    /\ Len(s) >= Len(suffix)
    /\ SubSeq(s, Len(s) - Len(suffix) + 1, Len(s)) = suffix

\* s[:n]
Slice(s, n) == SubSeq(s, 1, IF Len(s) < n THEN Len(s) ELSE n)

\* seq[-k] is defined when k <= len(seq); IndexError otherwise
HasNegIndex(seq, k) == k <= Len(seq)
NegIndex(seq, k) == seq[Len(seq) + 1 - k]

\* sep.join(seq)
RECURSIVE JoinWith(_, _)
JoinWith(seq, sep) ==
    IF seq = <<>> THEN <<>>
    ELSE IF Len(seq) = 1 THEN seq[1]
    ELSE seq[1] \o sep \o JoinWith(Tail(seq), sep)

\* os.path.join(a, b) (posixpath)
OsPathJoin(a, b) ==
    IF b # <<>> /\ Head(b) = "/" THEN b
    ELSE IF a = <<>> \/ a[Len(a)] = "/" THEN a \o b
    ELSE a \o <<"/">> \o b

\* os.path.dirname(p) (posixpath)
OsPathDirname(p) ==
    LET head == SubSeq(p, 1, RFind(p, "/"))
    IN  IF head # <<>> /\ \E i \in 1..Len(head) : head[i] # "/"
        THEN RStrip(head, "/")
        ELSE head

\* d.get(k, default)
DictGet(d, k, default) == IF k \in DOMAIN d THEN d[k] ELSE default

\* d[k] = v
DictSet(d, k, v) ==
    [x \in (DOMAIN d) \cup {k} |-> IF x = k THEN v ELSE d[x]]

----------------------------------------------------------------------------
(* The functions of main_script.py *)

\* line 31
path_parts(p) == Split(Strip(p, "/"), "/")

\* lines 32-33: the ValueError
generate_metadata_from_path_raises(p) == Len(path_parts(p)) < 3

\* the mutant of generate_metadata_from_path: the author read one segment up
generate_metadata_author_one_up(p) ==
    LET a == NegIndex(path_parts(p), 3)
        m == Split(NegIndex(path_parts(p), 1), ".")[1]
    IN  [author       |-> a,
         model_name   |-> m,
         description  |-> AutoPrefix \o a \o <<"/">> \o m,
         license      |-> Unknown,
         format       |-> GGUF,
         parameters   |-> Unknown,
         architecture |-> Unknown]

\* lines 35-48, defined when line 33 does not raise
generate_metadata_from_path(p) ==
    LET a == NegIndex(path_parts(p), 2)
        m == Split(NegIndex(path_parts(p), 1), ".")[1]
    IN  [author       |-> a,
         model_name   |-> m,
         description  |-> AutoPrefix \o a \o <<"/">> \o m,
         license      |-> Unknown,
         format       |-> GGUF,
         parameters   |-> Unknown,
         architecture |-> Unknown]

\* line 104
readme_path_of(p) == OsPathJoin(OsPathDirname(p), ReadmeMd)

\* the mutant of parse_readme: the first line is not cut
parse_readme_uncut(readme_path, md, fs) ==
    IF fs.exists /\ EndsWith(readme_path, DotMd)
    THEN [md EXCEPT !["description"] = Split(fs.content, "\n")[1] \o Ellipsis]
    ELSE md

\* lines 68-75; fs is the file system at readme_path
parse_readme(readme_path, md, fs) ==
    IF fs.exists /\ EndsWith(readme_path, DotMd)
    THEN [md EXCEPT !["description"] =
              Slice(Split(fs.content, "\n")[1], DescMax) \o Ellipsis]
    ELSE md

\* a falsy license (None or "") gives the right operand of `or`, line 59
PyOr(a, b) == IF a = <<>> \/ a = <<"None">> THEN b ELSE a

\* the mutant of fetch_huggingface_metadata: HfHubError gives a record of
\* defaults, not None
fetch_defaults_on_error(reply) ==
    IF reply.kind = "found"
    THEN [description  |-> DictGet(reply.model_info.cardData, "model_description",
                                   HfDefaultDescription),
          license      |-> PyOr(reply.model_info.license, Unknown),
          parameters   |-> DictGet(reply.model_info.cardData, "model_parameters",
                                   Unknown),
          architecture |-> DictGet(reply.model_info.cardData, "model_architecture",
                                   Unknown)]
    ELSE [description  |-> HfDefaultDescription,
          license      |-> Unknown,
          parameters   |-> Unknown,
          architecture |-> Unknown]

\* lines 55-65; reply is what hf_api.model_info did: it returned model_info
\* (kind "found") or raised HfHubError (the model is not there: "not_found";
\* the registry is unreachable or refuses the token: "lookup_error")
fetch_huggingface_metadata(reply) ==
    IF reply.kind = "found"
    THEN [description  |-> DictGet(reply.model_info.cardData, "model_description",
                                   HfDefaultDescription),
          license      |-> PyOr(reply.model_info.license, Unknown),
          parameters   |-> DictGet(reply.model_info.cardData, "model_parameters",
                                   Unknown),
          architecture |-> DictGet(reply.model_info.cardData, "model_architecture",
                                   Unknown)]
    ELSE None

\* `if hf_metadata:`, line 110
Truthy(d) == d # None /\ DOMAIN d # {}

\* the keys of hf_metadata in insertion order (lines 57-62), as line 81 visits them
HfKeys == <<"description", "license", "parameters", "architecture">>

\* the mutant of IsConflict: the test against "Unknown" is lost
IsConflictWithoutSentinelTest(hf, local, key) == hf[key] # local[key]

\* line 82
IsConflict(hf, local, key) == hf[key] # local[key] /\ hf[key] # Unknown

\* line 95
KeepValue(hf, local, key) == IF hf[key] # Unknown THEN hf[key] ELSE local[key]

\* line 92: what Interface.launch returns is the launched app and its two
\* urls, not the value the Interface's fn computes
LaunchReturn == <<"app", "local_url", "share_url">>

\* line 117
output_file_of(output_dir, md) ==
    OsPathJoin(output_dir, md["model_name"] \o DotJson)

\* line 123
saved_message(model_name, out) == SavedPrefix \o model_name \o SavedInfix \o out

----------------------------------------------------------------------------
(* The environment: the directory tree, the README files, the registry *)

RECURSIVE Rep(_, _)
Rep(c, n) == IF n = 0 THEN <<>> ELSE <<c>> \o Rep(c, n - 1)

\* the output directory the operator gave
OutputDir == <<"o","u","t">>

\* one (root, file) pair of os.walk(model_dir)
Entry(dir, root, file) == [model_dir |-> dir, root |-> root, file |-> file]

DirM == <<"m">>
DirSlashM == <<"/","m">>
RootBobTl == <<"m","/","b","o","b","/","t","l","-","c">>
RootSlashBobTl == <<"/","m","/","b","o","b","/","t","l","-","c">>
RootAA == <<"m","/","a","/","a">>
FileW == <<"w",".","g","g","u","f">>
FileA == <<"a",".","g","g","u","f">>
FileTxt == <<"n",".","t","x","t">>

WalkEntries ==
    { Entry(DirM, DirM, FileW),                 \* a model file right in model_dir
      Entry(DirM, RootBobTl, FileW),            \* m/bob/tl-c/w.gguf
      Entry(DirM, RootBobTl, FileTxt),          \* not a .gguf file
      Entry(DirM, RootAA, FileA),               \* m/a/a/a.gguf
      Entry(DirSlashM, DirSlashM, FileW),       \* /m/w.gguf
      Entry(DirSlashM, RootSlashBobTl, FileW) } \* /m/bob/tl-c/w.gguf

\* os.walk lists one tree, top down, each directory once with its files
IsWalk(w) ==
    /\ \A i, j \in DOMAIN w : i # j => w[i] # w[j]
    /\ \A i, j \in DOMAIN w : w[i].model_dir = w[j].model_dir
    /\ \A i, j \in DOMAIN w :
          (i < j /\ w[j].root = w[j].model_dir) => w[i].root = w[i].model_dir
    /\ \A i, j, k \in DOMAIN w :
          (i < j /\ j < k /\ w[i].root = w[k].root) => w[j].root = w[i].root

Walks ==
    { w \in UNION { [1..n -> WalkEntries] : n \in 0..MaxBatch } : IsWalk(w) }

\* README.md beside the artifact: absent, or present with some text
ReadmeContents ==
    { <<>>,
      <<"H","i","\n","y","o">>,
      Rep("x", DescMax),
      Rep("x", DescMax + 1) \o <<"\n","y">> }

NoReadme == [exists |-> FALSE, content |-> <<>>]

Readmes == {NoReadme} \cup { [exists |-> TRUE, content |-> c] : c \in ReadmeContents }

\* model_info.cardData: each key may be missing
CardKeys == {"model_description", "model_parameters", "model_architecture"}

CardValues(k) ==
    IF k = "model_description" THEN {Unknown, <<"H","i",".",".",".">>}
    ELSE IF k = "model_parameters" THEN {<<"7","B">>}
    ELSE {<<"l","l","a","m","a">>}

CardDatas ==
    { d \in UNION { [S -> UNION { CardValues(k) : k \in CardKeys }] : S \in SUBSET CardKeys } :
        \A k \in DOMAIN d : d[k] \in CardValues(k) }

Licenses == { <<"None">>, <<"M","I","T">> }

ModelInfos == { [cardData |-> d, license |-> l] : d \in CardDatas, l \in Licenses }

RegistryReplies ==
    { [kind |-> "found", model_info |-> mi] : mi \in ModelInfos }
        \cup { [kind |-> k, model_info |-> None] : k \in {"not_found", "lookup_error"} }

\* Interface.launch returns, or fails to start
LaunchOutcomes == {"returned", "raised"}

NoPrompts == [f \in Fields |-> 0]

----------------------------------------------------------------------------
(* process_models_directory, one action per step of the code *)

Init ==
    /\ pc = "walk"
    /\ walk \in Walks
    /\ idx = 1
    /\ model_path = <<>>
    /\ author = <<>>
    /\ modelname = <<>>
    /\ local_metadata = None
    /\ readme = NoReadme
    /\ lookup_result = "none"
    /\ hf_metadata = None
    /\ key_i = 0
    /\ result_metadata = EmptyDict
    /\ prompts = NoPrompts
    /\ metadata = None
    /\ output_file = <<>>
    /\ files = EmptyDict
    /\ output_info = <<>>
    /\ result = <<>>
    /\ error = "none"
    /\ steps = <<>>

\* an exception nothing catches leaves process_models_directory
Raise(e) ==
    /\ pc' = "aborted"
    /\ error' = e

\* line 138: the walk is exhausted
WalkReturn ==
    /\ pc = "walk"
    /\ idx > Len(walk)
    /\ result' = JoinWith(output_info, <<"\n">>)
    /\ pc' = "done"
    /\ UNCHANGED <<walk, idx, model_path, author, modelname, local_metadata, readme,
                   lookup_result, hf_metadata, key_i, result_metadata, prompts,
                   metadata, output_file, files, output_info, error, steps>>

\* line 131: a file that is no .gguf file
WalkSkip ==
    /\ pc = "walk"
    /\ idx <= Len(walk)
    /\ ~EndsWith(walk[idx].file, DotGguf)
    /\ idx' = idx + 1
    /\ UNCHANGED <<pc, walk, model_path, author, modelname, local_metadata, readme,
                   lookup_result, hf_metadata, key_i, result_metadata, prompts,
                   metadata, output_file, files, output_info, result, error, steps>>

\* lines 131-135: a .gguf file; the call of generate_model_card starts afresh
WalkSelect ==
    /\ pc = "walk"
    /\ idx <= Len(walk)
    /\ EndsWith(walk[idx].file, DotGguf)
    /\ model_path' = OsPathJoin(walk[idx].root, walk[idx].file)
    /\ local_metadata' = None
    /\ readme' = NoReadme
    /\ lookup_result' = "none"
    /\ hf_metadata' = None
    /\ key_i' = 0
    /\ result_metadata' = EmptyDict
    /\ prompts' = NoPrompts
    /\ metadata' = None
    /\ output_file' = <<>>
    /\ steps' = <<>>
    /\ IF HasNegIndex(Split(model_path', "/"), 3)
       THEN /\ author' = NegIndex(Split(model_path', "/"), 3)
            /\ modelname' = Split(NegIndex(Split(model_path', "/"), 2), "-")[1]
            /\ pc' = "extract"
            /\ UNCHANGED error
       ELSE /\ Raise("IndexError")
            /\ UNCHANGED <<author, modelname>>
    /\ UNCHANGED <<walk, idx, files, output_info, result>>

\* line 101
Extract ==
    /\ pc = "extract"
    /\ IF generate_metadata_from_path_raises(model_path)
       THEN /\ Raise("ValueError")
            /\ UNCHANGED <<local_metadata, steps>>
       ELSE /\ local_metadata' = generate_metadata_from_path(model_path)
            /\ steps' = Append(steps, "extract")
            /\ pc' = "enrich"
            /\ UNCHANGED error
    /\ UNCHANGED <<walk, idx, model_path, author, modelname, readme, lookup_result,
                   hf_metadata, key_i, result_metadata, prompts, metadata,
                   output_file, files, output_info, result>>

\* lines 104-105
Enrich ==
    /\ pc = "enrich"
    /\ \E fs \in Readmes :
          /\ readme' = fs
          /\ local_metadata' =
                parse_readme(readme_path_of(model_path), local_metadata, fs)
    /\ steps' = Append(steps, "enrich")
    /\ pc' = "lookup"
    /\ UNCHANGED <<walk, idx, model_path, author, modelname, lookup_result,
                   hf_metadata, key_i, result_metadata, prompts, metadata,
                   output_file, files, output_info, result, error>>

\* line 108
Lookup ==
    /\ pc = "lookup"
    /\ \E reply \in RegistryReplies :
          /\ lookup_result' = reply.kind
          /\ hf_metadata' = fetch_huggingface_metadata(reply)
    /\ steps' = Append(steps, "lookup")
    /\ pc' = "branch"
    /\ UNCHANGED <<walk, idx, model_path, author, modelname, local_metadata, readme,
                   key_i, result_metadata, prompts, metadata, output_file, files,
                   output_info, result, error>>

\* lines 110-112, 79: resolve_metadata_conflicts is entered
MergeBegin ==
    /\ pc = "branch"
    /\ Truthy(hf_metadata)
    /\ result_metadata' = EmptyDict
    /\ key_i' = 1
    /\ pc' = "merge"
    /\ UNCHANGED <<walk, idx, model_path, author, modelname, local_metadata, readme,
                   lookup_result, hf_metadata, prompts, metadata, output_file, files,
                   output_info, result, error, steps>>

\* lines 113-114
NoMerge ==
    /\ pc = "branch"
    /\ ~Truthy(hf_metadata)
    /\ metadata' = local_metadata
    /\ steps' = Append(steps, "merge")
    /\ pc' = "name"
    /\ UNCHANGED <<walk, idx, model_path, author, modelname, local_metadata, readme,
                   lookup_result, hf_metadata, key_i, result_metadata, prompts,
                   output_file, files, output_info, result, error>>

\* lines 82-93: one pass of the loop, a field in conflict
ResolvePrompt ==
    /\ pc = "merge"
    /\ key_i <= Len(HfKeys)
    /\ IsConflict(hf_metadata, local_metadata, HfKeys[key_i])
    /\ prompts' = [prompts EXCEPT ![HfKeys[key_i]] = @ + 1]
    /\ \E outcome \in LaunchOutcomes :
          IF outcome = "returned"
          THEN /\ result_metadata' =
                     DictSet(result_metadata, HfKeys[key_i], LaunchReturn)
               /\ key_i' = key_i + 1
               /\ UNCHANGED <<pc, error>>
          ELSE /\ Raise("LaunchError")
               /\ UNCHANGED <<result_metadata, key_i>>
    /\ UNCHANGED <<walk, idx, model_path, author, modelname, local_metadata, readme,
                   lookup_result, hf_metadata, metadata, output_file, files,
                   output_info, result, steps>>

\* lines 94-95: one pass of the loop, no conflict
ResolveKeep ==
    /\ pc = "merge"
    /\ key_i <= Len(HfKeys)
    /\ ~IsConflict(hf_metadata, local_metadata, HfKeys[key_i])
    /\ result_metadata' =
          DictSet(result_metadata, HfKeys[key_i],
                  KeepValue(hf_metadata, local_metadata, HfKeys[key_i]))
    /\ key_i' = key_i + 1
    /\ UNCHANGED <<pc, walk, idx, model_path, author, modelname, local_metadata,
                   readme, lookup_result, hf_metadata, prompts, metadata, output_file,
                   files, output_info, result, error, steps>>

\* lines 97, 112
ResolveReturn ==
    /\ pc = "merge"
    /\ key_i > Len(HfKeys)
    /\ metadata' = result_metadata
    /\ steps' = Append(steps, "merge")
    /\ pc' = "name"
    /\ UNCHANGED <<walk, idx, model_path, author, modelname, local_metadata, readme,
                   lookup_result, hf_metadata, key_i, result_metadata, prompts,
                   output_file, files, output_info, result, error>>

\* the mutant of NameCard: metadata.get("model_name", "Unknown"), no KeyError
NameCardWithDefault ==
    /\ pc = "name"
    /\ output_file' =
          OsPathJoin(OutputDir, DictGet(metadata, "model_name", Unknown) \o DotJson)
    /\ pc' = "write"
    /\ UNCHANGED <<walk, idx, model_path, author, modelname, local_metadata, readme,
                   lookup_result, hf_metadata, key_i, result_metadata, prompts,
                   metadata, files, output_info, result, error, steps>>

\* lines 116-117: metadata["model_name"] is a KeyError on a dict without the key
NameCard ==
    /\ pc = "name"
    /\ IF "model_name" \in DOMAIN metadata
       THEN /\ output_file' = output_file_of(OutputDir, metadata)
            /\ pc' = "write"
            /\ UNCHANGED error
       ELSE /\ Raise("KeyError")
            /\ UNCHANGED output_file
    /\ UNCHANGED <<walk, idx, model_path, author, modelname, local_metadata, readme,
                   lookup_result, hf_metadata, key_i, result_metadata, prompts,
                   metadata, files, output_info, result, steps>>

\* lines 120-121
WriteCard ==
    /\ pc = "write"
    /\ files' = DictSet(files, output_file, metadata)
    /\ steps' = Append(steps, "write")
    /\ pc' = "append"
    /\ UNCHANGED <<walk, idx, model_path, author, modelname, local_metadata, readme,
                   lookup_result, hf_metadata, key_i, result_metadata, prompts,
                   metadata, output_file, output_info, result, error>>

\* lines 123, 136
ReturnCard ==
    /\ pc = "append"
    /\ output_info' =
          Append(output_info, saved_message(metadata["model_name"], output_file))
    /\ idx' = idx + 1
    /\ pc' = "walk"
    /\ UNCHANGED <<walk, model_path, author, modelname, local_metadata, readme,
                   lookup_result, hf_metadata, key_i, result_metadata, prompts,
                   metadata, output_file, files, result, error, steps>>

Next ==
    \/ WalkReturn
    \/ WalkSkip
    \/ WalkSelect
    \/ Extract
    \/ Enrich
    \/ Lookup
    \/ MergeBegin
    \/ NoMerge
    \/ ResolvePrompt
    \/ ResolveKeep
    \/ ResolveReturn
    \/ NameCard
    \/ WriteCard
    \/ ReturnCard

Spec == Init /\ [][Next]_vars

----------------------------------------------------------------------------
(* generate_metadata_from_path on its own, over path strings of every shape *)

SegBob == <<"b","o","b">>
SegTinyllama == <<"t","i","n","y","l","l","a","m","a">>

Segments ==
    { <<>>, <<".">>, SegBob, SegTinyllama, Unknown, FileW,
      Unknown \o <<".","x">> }

Slashes == { <<>>, <<"/">> }

PathStrings ==
    { lead \o JoinWith(segs, <<"/">>) \o trail :
        lead \in Slashes, trail \in Slashes,
        segs \in UNION { [1..n -> Segments] : n \in 1..MaxSegs } }

PathInit ==
    /\ pc = "extract"
    /\ walk = <<>>
    /\ idx = 1
    /\ model_path \in PathStrings
    /\ author = <<>>
    /\ modelname = <<>>
    /\ local_metadata = None
    /\ readme = NoReadme
    /\ lookup_result = "none"
    /\ hf_metadata = None
    /\ key_i = 0
    /\ result_metadata = EmptyDict
    /\ prompts = NoPrompts
    /\ metadata = None
    /\ output_file = <<>>
    /\ files = EmptyDict
    /\ output_info = <<>>
    /\ result = <<>>
    /\ error = "none"
    /\ steps = <<>>

PathNext == Extract

PathSpec == PathInit /\ [][PathNext]_vars

----------------------------------------------------------------------------
(* Claims about the batch: Spec *)

\* C1: a per-artifact failure (the ValueError of generate_metadata_from_path,
\* a failure of the prompt in resolve_metadata_conflicts) skips that artifact
\* only: it never ends process_models_directory, which goes on to the later
\* artifacts and returns its status string.
C1_ArtifactFailureDoesNotEndBatch ==
    /\ ~(pc = "aborted" /\ error \in {"ValueError", "LaunchError"})
    /\ pc = "done" => idx = Len(walk) + 1

\* C2: the canonical record the merge step hands to line 116 carries the local
\* record's author and model_name, and neither is "Unknown".
C2_IdentifiersTakenFromLocal ==
    pc = "name" =>
        /\ "author" \in DOMAIN metadata
        /\ "model_name" \in DOMAIN metadata
        /\ metadata["author"] = local_metadata["author"]
        /\ metadata["model_name"] = local_metadata["model_name"]
        /\ metadata["author"] # Unknown
        /\ metadata["model_name"] # Unknown

\* C3: with a remote record present, every field the remote record has is
\* merged to: the shared value when remote and local agree, the local value
\* when the remote value is "Unknown", the remote value otherwise.
C3_RemoteWinsConflicts ==
    (pc = "name" /\ lookup_result = "found") =>
        \A f \in DOMAIN hf_metadata :
            /\ f \in DOMAIN metadata
            /\ metadata[f] =
                  IF hf_metadata[f] = local_metadata[f] THEN hf_metadata[f]
                  ELSE IF hf_metadata[f] = Unknown THEN local_metadata[f]
                  ELSE hf_metadata[f]

\* C4: during one merge the prompt is launched exactly once for each field
\* whose remote value differs from the local one and is not "Unknown", and
\* never for any other field: at each point of the loop this holds of the
\* fields already visited, and at its return of all fields.
C4_PromptOncePerConflict ==
    /\ pc = "merge" =>
          \A i \in 1..Len(HfKeys) :
              prompts[HfKeys[i]] =
                  IF /\ i < key_i
                     /\ hf_metadata[HfKeys[i]] # local_metadata[HfKeys[i]]
                     /\ hf_metadata[HfKeys[i]] # Unknown
                  THEN 1 ELSE 0
    /\ (pc = "name" /\ lookup_result = "found") =>
          \A f \in Fields :
              prompts[f] =
                  IF /\ f \in DOMAIN hf_metadata
                     /\ hf_metadata[f] # local_metadata[f]
                     /\ hf_metadata[f] # Unknown
                  THEN 1 ELSE 0
    /\ \A f \in Fields : prompts[f] <= 1
    /\ \A f \in Fields \ {HfKeys[i] : i \in 1..Len(HfKeys)} : prompts[f] = 0

C4_Witness ==
    /\ pc = "name"
    /\ lookup_result = "found"
    /\ prompts["license"] = 1
    /\ prompts["parameters"] = 0
    /\ hf_metadata["description"] = local_metadata["description"]

\* C5: when the registry has no such model, the canonical record is the local
\* record field for field, it is what is written, and the merge loop (its
\* comparisons, its prompts) never runs.
C5_NotFoundWritesLocal ==
    lookup_result = "not_found" =>
        /\ key_i = 0
        /\ prompts = NoPrompts
        /\ pc \in {"name", "write", "append"} => metadata = local_metadata
        /\ pc = "append" =>
              /\ output_file \in DOMAIN files
              /\ files[output_file] = local_metadata

C5_Witness ==
    /\ lookup_result = "not_found"
    /\ pc = "append"
    /\ readme.exists
    /\ files[output_file] = local_metadata

\* C6: when the lookup fails (unreachable registry, refused token) the artifact
\* still gets its descriptor, holding the local record, and the failure is
\* reported: the artifact's status line is not the plain success line.
C6_LookupErrorReported ==
    (pc = "walk" /\ lookup_result = "lookup_error") =>
        /\ output_file \in DOMAIN files
        /\ files[output_file] = local_metadata
        /\ output_info # <<>>
        /\ output_info[Len(output_info)] #
              saved_message(metadata["model_name"], output_file)

\* C8 as claimed: without a README the description is still "Unknown", as are
\* license, parameters and architecture.
C8_DescriptionStaysSentinel ==
    (pc = "lookup" /\ ~readme.exists) =>
        /\ local_metadata["description"] = Unknown
        /\ local_metadata["license"] = Unknown
        /\ local_metadata["parameters"] = Unknown
        /\ local_metadata["architecture"] = Unknown

\* C8, amended: parse_readme changes no field but description. Without a
\* README the record is the path-derived one, whose description is the
\* generated text "Auto-generated model card for <author>/<model_name>" and
\* whose license, parameters and architecture are "Unknown". With a README,
\* description is the first line cut to at most 100 characters, then "...".
C8_ParseReadmeFrame ==
    pc = "lookup" =>
        /\ \A f \in Fields \ {"description"} :
              local_metadata[f] = generate_metadata_from_path(model_path)[f]
        /\ local_metadata["license"] = Unknown
        /\ local_metadata["parameters"] = Unknown
        /\ local_metadata["architecture"] = Unknown
        /\ ~readme.exists =>
              /\ local_metadata = generate_metadata_from_path(model_path)
              /\ local_metadata["description"] =
                    AutoPrefix \o local_metadata["author"] \o <<"/">>
                        \o local_metadata["model_name"]
        /\ readme.exists =>
              \E n \in 0..DescMax :
                  /\ n <= Len(readme.content)
                  /\ local_metadata["description"] =
                        SubSeq(readme.content, 1, n) \o <<".", ".", ".">>
                  /\ \A i \in 1..n : readme.content[i] # "\n"
                  /\ \/ n = DescMax
                     \/ n = Len(readme.content)
                     \/ readme.content[n + 1] = "\n"

C8_Witness ==
    /\ pc = "lookup"
    /\ readme.exists
    /\ Len(readme.content) > DescMax
    /\ Len(local_metadata["description"]) = DescMax + 3

\* C9: every descriptor in the output directory holds all seven fields and is
\* named <model_name>.json after the record in it, and a descriptor is written
\* only when the artifact's extract, enrich, lookup and merge steps are done,
\* from the complete canonical record.
C9_DescriptorsComplete ==
    /\ [](\A f \in DOMAIN files :
            /\ DOMAIN files[f] = Fields
            /\ f = OutputDir \o <<"/">> \o files[f]["model_name"] \o DotJson)
    /\ [][files' # files =>
            /\ steps = <<"extract", "enrich", "lookup", "merge">>
            /\ DOMAIN metadata = Fields
            /\ \E f \in DOMAIN files' :
                  /\ files'[f] = metadata
                  /\ \A g \in DOMAIN files : g # f => files'[g] = files[g]]_vars

C9_Witness ==
    /\ pc = "append"
    /\ Cardinality(DOMAIN files) = 2
    /\ files[output_file] = metadata

\* C10: the (author, modelname) pair handed to fetch_huggingface_metadata is
\* the author and model_name of the local record derived from the same path.
C10_LookupPairIsLocalPair ==
    pc = "branch" =>
        /\ author = local_metadata["author"]
        /\ modelname = local_metadata["model_name"]

----------------------------------------------------------------------------
(* Claims about generate_metadata_from_path: PathSpec *)

\* C7 as claimed: under three segments the call fails; otherwise author is the
\* parent-of-parent directory's name, model_name the last segment up to its
\* first '.', and neither is "Unknown".
C7_AuthorIsParentOfParent ==
    pc # "extract" =>
        LET parts == Split(Strip(model_path, "/"), "/")
            last == parts[Len(parts)]
        IN  IF Len(parts) < 3
            THEN pc = "aborted" /\ error = "ValueError"
            ELSE /\ pc = "enrich"
                 /\ local_metadata["author"] = parts[Len(parts) - 2]
                 /\ local_metadata["author"] # Unknown
                 /\ local_metadata["model_name"] # Unknown

\* C7, amended: under three segments (the path stripped of leading and
\* trailing '/', split at '/') the call fails with ValueError; otherwise
\* author is the second-to-last segment (the parent directory's name) and
\* model_name the last segment up to its first '.'; each is "Unknown" only
\* when that segment, or that stem, is itself "Unknown". ./bob/tinyllama
\* gives author bob, model_name tinyllama.
C7_AuthorIsParent ==
    pc # "extract" =>
        LET parts == Split(Strip(model_path, "/"), "/")
            last == parts[Len(parts)]
        IN  IF Len(parts) < 3
            THEN pc = "aborted" /\ error = "ValueError" /\ local_metadata = None
            ELSE /\ pc = "enrich"
                 /\ error = "none"
                 /\ local_metadata["author"] = parts[Len(parts) - 1]
                 /\ \E n \in 0..Len(last) :
                       /\ local_metadata["model_name"] = SubSeq(last, 1, n)
                       /\ \A i \in 1..n : last[i] # "."
                       /\ n = Len(last) \/ last[n + 1] = "."
                 /\ model_path = <<".", "/">> \o SegBob \o <<"/">> \o SegTinyllama =>
                       /\ local_metadata["author"] = SegBob
                       /\ local_metadata["model_name"] = SegTinyllama

C7_Witness ==
    /\ pc = "enrich"
    /\ model_path = <<".", "/">> \o SegBob \o <<"/">> \o SegTinyllama
    /\ local_metadata["author"] = SegBob
    /\ local_metadata["model_name"] = SegTinyllama

====
